---- MODULE Spec2Model ----
(***************************************************************************)
(* Model of the vadscore frame-scoring engine (class VADCore).             *)
(*                                                                         *)
(* A JavaScript number is modelled as a record: a finite value in          *)
(* fixed-point units of 1/Scale, NaN, +Infinity or -Infinity; a            *)
(* configuration field may also hold undefined, and a field of a partial   *)
(* configuration may be absent.  Finite arithmetic rounds down to the      *)
(* next multiple of 1/Scale; -0 is not distinguished from 0.               *)
(***************************************************************************)
EXTENDS Integers, Sequences, FiniteSets, TLC

\* Fixed-point resolution of a finite number: the value 1 is Scale units.
Scale == 100

\* ---- bounds of the model ----
\* Longest audio frame fed to processFrame (frames of length 0..MaxFrameLen).
MaxFrameLen == 2
\* processFrame is enabled only while the counters stay <= MaxCount.
MaxCount == 4
\* Longest run of frames the sustained-signal scenario feeds.
MaxScenarioFrames == 12
\* Most media streams getUserMedia hands to one hook.
MaxStreams == 2
\* Most startListening calls of one hook awaiting getUserMedia at a time.
MaxAwaiting == 1
\* Longest audio buffer handed to processAudioBuffer.
MaxBufferLen == 3
\* Longest frame handed to a feature extractor on its own.
MaxExtractLen == 4
\* Most scores a processAudioBuffer call is followed for.
MaxScores == 4

\* ------------------------------------------------------------------------
\* JavaScript numbers
\* ------------------------------------------------------------------------
Fin(x) == [k |-> "fin", v |-> x]
NaN == [k |-> "nan", v |-> 0]
PosInf == [k |-> "inf", v |-> 1]
NegInf == [k |-> "inf", v |-> -1]
Undefined == [k |-> "undef", v |-> 0]
Absent == [k |-> "absent", v |-> 0]

\* The decimal n/d as a finite number.
Dec(n, d) == Fin((n * Scale) \div d)
\* The integer n (a length, an index, a counter) as a number.
Num(n) == Fin(n * Scale)

IsFin(a) == a.k = "fin"
IsNaN(a) == a.k = "nan"
IsInf(a) == a.k = "inf"

\* ToNumber: undefined (and a missing property, which reads as undefined)
\* converts to NaN in arithmetic and comparisons.
ToNumber(a) == IF a.k = "undef" \/ a.k = "absent" THEN NaN ELSE a

\* ToBoolean of a number-or-undefined: undefined, NaN and 0 are falsy.
Truthy(a) == /\ a.k \notin {"undef", "absent", "nan"}
             /\ ~(a.k = "fin" /\ a.v = 0)

\* a || b
OrElse(a, b) == IF Truthy(a) THEN a ELSE b

SignOf(a) == IF a.v > 0 THEN 1 ELSE IF a.v < 0 THEN -1 ELSE 0
InfOf(s) == IF s > 0 THEN PosInf ELSE NegInf

\* Each operation first treats two finite operands, the common case.
Neg(x) == IF x.k = "fin" THEN Fin(-x.v)
          ELSE LET a == ToNumber(x) IN
               IF IsNaN(a) THEN NaN ELSE InfOf(-a.v)

AddSpecial(a, b) == IF IsNaN(a) \/ IsNaN(b) THEN NaN
                    ELSE IF IsInf(a) /\ IsInf(b) THEN (IF a.v = b.v THEN a ELSE NaN)
                    ELSE IF IsInf(a) THEN a
                    ELSE b

Add(x, y) == IF x.k = "fin" /\ y.k = "fin" THEN Fin(x.v + y.v)
             ELSE AddSpecial(ToNumber(x), ToNumber(y))

Sub(x, y) == Add(x, Neg(y))

MulSpecial(a, b) == IF IsNaN(a) \/ IsNaN(b) THEN NaN
                    ELSE IF SignOf(a) * SignOf(b) = 0 THEN NaN
                    ELSE InfOf(SignOf(a) * SignOf(b))

Mul(x, y) == IF x.k = "fin" /\ y.k = "fin" THEN Fin((x.v * y.v) \div Scale)
             ELSE MulSpecial(ToNumber(x), ToNumber(y))

DivSpecial(a, b) == IF IsNaN(a) \/ IsNaN(b) THEN NaN
                    ELSE IF IsInf(a) /\ IsInf(b) THEN NaN
                    ELSE IF IsInf(a) THEN InfOf(a.v * (IF b.v < 0 THEN -1 ELSE 1))
                    ELSE IF IsInf(b) THEN Fin(0)
                    ELSE IF a.v = 0 THEN NaN
                    ELSE InfOf(a.v)

Div(x, y) == IF x.k = "fin" /\ y.k = "fin" /\ y.v # 0 THEN Fin((x.v * Scale) \div y.v)
             ELSE DivSpecial(ToNumber(x), ToNumber(y))

\* a > b, a >= b, a <= b: false whenever an operand is NaN.
GtSpecial(a, b) == /\ ~IsNaN(a) /\ ~IsNaN(b)
                   /\ IF IsInf(a) /\ IsInf(b) THEN a.v > b.v
                      ELSE IF IsInf(a) THEN a.v > 0
                      ELSE b.v < 0

Gt(x, y) == IF x.k = "fin" /\ y.k = "fin" THEN x.v > y.v
            ELSE GtSpecial(ToNumber(x), ToNumber(y))

Ge(x, y) == IF x.k = "fin" /\ y.k = "fin" THEN x.v >= y.v
            ELSE LET a == ToNumber(x)
                     b == ToNumber(y) IN
                 /\ ~IsNaN(a) /\ ~IsNaN(b)
                 /\ (GtSpecial(a, b) \/ a = b)

Le(x, y) == Ge(y, x)

\* Math.min / Math.max: NaN if either argument is NaN.
MathMin(x, y) == IF x.k = "fin" /\ y.k = "fin" THEN (IF x.v > y.v THEN y ELSE x)
                 ELSE LET a == ToNumber(x)
                          b == ToNumber(y) IN
                      IF IsNaN(a) \/ IsNaN(b) THEN NaN
                      ELSE IF Gt(a, b) THEN b ELSE a

MathMax(x, y) == IF x.k = "fin" /\ y.k = "fin" THEN (IF y.v > x.v THEN y ELSE x)
                 ELSE LET a == ToNumber(x)
                          b == ToNumber(y) IN
                      IF IsNaN(a) \/ IsNaN(b) THEN NaN
                      ELSE IF Gt(b, a) THEN b ELSE a

\* Largest r with r*r <= n, for n >= 0 the fixed-point product v * Scale:
\* the root is at most the larger of v and Scale, and it is the number of
\* r >= 1 with r*r <= n.
ISqrt(n) == Cardinality({r \in 1..(IF n \div Scale > Scale THEN n \div Scale ELSE Scale) : r * r <= n})

\* Math.sqrt
MathSqrt(x) == LET a == ToNumber(x) IN
               IF IsNaN(a) THEN NaN
               ELSE IF IsInf(a) THEN (IF a.v > 0 THEN PosInf ELSE NaN)
               ELSE IF a.v < 0 THEN NaN
               ELSE Fin(ISqrt(a.v * Scale))

\* Math.abs
MathAbs(x) == LET a == ToNumber(x) IN
              IF IsNaN(a) THEN NaN
              ELSE IF IsInf(a) THEN PosInf
              ELSE Fin(IF a.v < 0 THEN -a.v ELSE a.v)

\* ------------------------------------------------------------------------
\* VADConfig
\* ------------------------------------------------------------------------
Fields == {"sampleRate", "frameSize", "energyThreshold", "zcrThreshold", "spectralCentroidThreshold", "smoothingFactor", "minSpeechFrames", "minSilenceFrames"}

\* The defaults the constructor falls back to.
Defaults == [sampleRate |-> Num(16000), frameSize |-> Num(512), energyThreshold |-> Dec(1, 100), zcrThreshold |-> Dec(3, 10), spectralCentroidThreshold |-> Num(1000), smoothingFactor |-> Dec(8, 10), minSpeechFrames |-> Num(3), minSilenceFrames |-> Num(5)]

\* The partial configuration {} with no field present.
EmptyPartial == [f \in Fields |-> Absent]

\* A partial configuration with the fields of the record r present.
Partial(r) == [f \in Fields |-> IF f \in DOMAIN r THEN r[f] ELSE Absent]

\* constructor(config = {}): each field is config.field || default.
Constructor(p) == [f \in Fields |-> OrElse(p[f], Defaults[f])]

\* updateConfig: { ...this.config, ...newConfig } copies every property
\* present in newConfig, whatever its value.
SpreadConfig(cfg, p) == [f \in Fields |-> IF p[f].k = "absent" THEN cfg[f] ELSE p[f]]

\* ------------------------------------------------------------------------
\* Audio frames
\* ------------------------------------------------------------------------
\* Sample values of a frame: -1, 0 and 1.
Samples == {Num(-1), Num(0), Num(1)}
Frames == UNION {[1..n -> Samples] : n \in 0..MaxFrameLen}

\* ------------------------------------------------------------------------
\* Feature extraction.  audioData[i] of the source is frame[i + 1].
\* ------------------------------------------------------------------------
\* sum of audioData[i] * audioData[i] over the first n samples
SumSquares(frame) == LET sum[n \in 0..Len(frame)] == IF n = 0 THEN Fin(0) ELSE Add(sum[n - 1], Mul(frame[n], frame[n]))
                     IN sum[Len(frame)]

calculateEnergy(frame) == MathSqrt(Div(SumSquares(frame), Num(Len(frame))))

\* the sign changes between adjacent samples, 0 counting as non-negative
\* A count that takes 0 for a negative sample.
CrossingsZeroNegative(frame) == LET crossings[n \in 0..Len(frame)] == IF n <= 1 THEN 0 ELSE crossings[n - 1] + (IF Gt(frame[n], Fin(0)) # Gt(frame[n - 1], Fin(0)) THEN 1 ELSE 0)
                                IN crossings[Len(frame)]

Crossings(frame) == LET crossings[n \in 0..Len(frame)] == IF n <= 1 THEN 0 ELSE crossings[n - 1] + (IF Ge(frame[n], Fin(0)) # Ge(frame[n - 1], Fin(0)) THEN 1 ELSE 0)
                    IN crossings[Len(frame)]

calculateZCR(frame) == Div(Num(Crossings(frame)), Num(Len(frame) - 1))

\* frequency of index i (0-based): (i * sampleRate) / (2 * length)
Frequency(sampleRate, frame, i) == Div(Mul(Num(i), sampleRate), Num(2 * Len(frame)))

WeightedSum(sampleRate, frame) == LET weightedSum[n \in 0..Len(frame)] == IF n = 0 THEN Fin(0) ELSE Add(weightedSum[n - 1], Mul(MathAbs(frame[n]), Frequency(sampleRate, frame, n - 1)))
                                  IN weightedSum[Len(frame)]

MagnitudeSum(frame) == LET magnitudeSum[n \in 0..Len(frame)] == IF n = 0 THEN Fin(0) ELSE Add(magnitudeSum[n - 1], MathAbs(frame[n]))
                       IN magnitudeSum[Len(frame)]

\* The only configuration field the centroid reads is sampleRate.
calculateSpectralCentroid(sampleRate, frame) == IF Gt(MagnitudeSum(frame), Fin(0))
                                                THEN Div(WeightedSum(sampleRate, frame), MagnitudeSum(frame))
                                                ELSE Fin(0)

\* The features processFrame extracts from its frame, which depend on the
\* frame and the sample rate alone.
Features(sampleRate, frame) == [sampleRate |-> sampleRate, frame |-> frame, energy |-> calculateEnergy(frame), zcr |-> calculateZCR(frame), spectralCentroid |-> calculateSpectralCentroid(sampleRate, frame)]

\* ------------------------------------------------------------------------
\* Hysteresis: the counters and the state after one score.
\* ------------------------------------------------------------------------
Threshold == Dec(1, 2)

\* A hysteresis without the debounce on entering Speaking: the first score
\* above the threshold sets the state.
applyHysteresisEager(cfg, score, sp, si, st) == IF Gt(score, Threshold)
                                                THEN [speechFrameCount |-> sp + 1, silenceFrameCount |-> 0, currentState |-> TRUE]
                                                ELSE [speechFrameCount |-> 0, silenceFrameCount |-> si + 1, currentState |-> IF st /\ Ge(Num(si + 1), cfg.minSilenceFrames) THEN FALSE ELSE st]

\* A hysteresis whose speech branch forgets to zero silenceFrameCount.
applyHysteresisKeepingSilence(cfg, score, sp, si, st) == IF Gt(score, Threshold)
                                                         THEN [speechFrameCount |-> sp + 1, silenceFrameCount |-> si, currentState |-> IF ~st /\ Ge(Num(sp + 1), cfg.minSpeechFrames) THEN TRUE ELSE st]
                                                         ELSE [speechFrameCount |-> 0, silenceFrameCount |-> si + 1, currentState |-> IF st /\ Ge(Num(si + 1), cfg.minSilenceFrames) THEN FALSE ELSE st]

applyHysteresis(cfg, score, sp, si, st) == IF Gt(score, Threshold)
                                           THEN [speechFrameCount |-> sp + 1, silenceFrameCount |-> 0, currentState |-> IF ~st /\ Ge(Num(sp + 1), cfg.minSpeechFrames) THEN TRUE ELSE st]
                                           ELSE [speechFrameCount |-> 0, silenceFrameCount |-> si + 1, currentState |-> IF st /\ Ge(Num(si + 1), cfg.minSilenceFrames) THEN FALSE ELSE st]

\* ------------------------------------------------------------------------
\* processFrame: the features, the scores and the session state after it.
\* ------------------------------------------------------------------------
EnergyScore(cfg, energy) == MathMin(Div(energy, cfg.energyThreshold), Num(1))
\* A ZCR score without the cap at 1.
ZcrScoreUncapped(cfg, zcr) == Div(zcr, cfg.zcrThreshold)

ZcrScore(cfg, zcr) == MathMin(Div(zcr, cfg.zcrThreshold), Num(1))
SpectralScore(cfg, spectralCentroid) == MathMin(Div(spectralCentroid, cfg.spectralCentroidThreshold), Num(1))

RawScore(energyScore, zcrScore, spectralScore) == Add(Add(Mul(energyScore, Dec(5, 10)), Mul(zcrScore, Dec(2, 10))), Mul(spectralScore, Dec(3, 10)))

\* A smoothing that gives the history no weight.
SmoothedScoreUnfiltered(cfg, prev, rawScore) == rawScore

SmoothedScore(cfg, prev, rawScore) == Add(Mul(cfg.smoothingFactor, prev), Mul(Sub(Num(1), cfg.smoothingFactor), rawScore))

ClampScore(smoothed) == MathMax(Fin(0), MathMin(Num(1), smoothed))

\* The rawScore processFrame computes for the features ft.
FrameRawScore(cfg, ft) == RawScore(EnergyScore(cfg, ft.energy), ZcrScore(cfg, ft.zcr), SpectralScore(cfg, ft.spectralCentroid))

\* A processFrame that does not store the smoothed score.
processFrameForgetting(cfg, prev, sp, si, st, ft) == LET smoothed == SmoothedScore(cfg, prev, FrameRawScore(cfg, ft))
                                                         h == applyHysteresis(cfg, smoothed, sp, si, st)
                                                     IN [previousScore |-> prev, speechFrameCount |-> h.speechFrameCount, silenceFrameCount |-> h.silenceFrameCount, currentState |-> h.currentState, result |-> [score |-> ClampScore(smoothed), isSpeaking |-> h.currentState, energy |-> ft.energy, zcr |-> ft.zcr, spectralCentroid |-> ft.spectralCentroid]]

\* ft is Features(cfg.sampleRate, audioData).
\* A processFrame reporting the state as it was before the frame.
processFrameStateBefore(cfg, prev, sp, si, st, ft) == LET smoothed == SmoothedScore(cfg, prev, FrameRawScore(cfg, ft))
                                                          h == applyHysteresis(cfg, smoothed, sp, si, st)
                                                      IN [previousScore |-> smoothed, speechFrameCount |-> h.speechFrameCount, silenceFrameCount |-> h.silenceFrameCount, currentState |-> h.currentState, result |-> [score |-> ClampScore(smoothed), isSpeaking |-> st, energy |-> ft.energy, zcr |-> ft.zcr, spectralCentroid |-> ft.spectralCentroid]]

processFrame(cfg, prev, sp, si, st, ft) == LET rawScore == RawScore(EnergyScore(cfg, ft.energy), ZcrScore(cfg, ft.zcr), SpectralScore(cfg, ft.spectralCentroid))
                                               smoothed == SmoothedScore(cfg, prev, rawScore)
                                               h == applyHysteresis(cfg, smoothed, sp, si, st)
                                           IN [previousScore |-> smoothed, speechFrameCount |-> h.speechFrameCount, silenceFrameCount |-> h.silenceFrameCount, currentState |-> h.currentState, result |-> [score |-> ClampScore(smoothed), isSpeaking |-> h.currentState, energy |-> ft.energy, zcr |-> ft.zcr, spectralCentroid |-> ft.spectralCentroid]]

\* ------------------------------------------------------------------------
\* Inputs
\* ------------------------------------------------------------------------
AllZero(frame) == \A i \in 1..Len(frame) : frame[i] = Num(0)

\* Configurations handed to the constructor.
CtorPartials == {EmptyPartial, Partial([sampleRate |-> Num(8000), frameSize |-> Num(3), energyThreshold |-> Dec(5, 100), zcrThreshold |-> Dec(5, 10), spectralCentroidThreshold |-> Num(2000), smoothingFactor |-> Dec(5, 10), minSpeechFrames |-> Num(2), minSilenceFrames |-> Num(2)]), Partial([smoothingFactor |-> Num(0), minSpeechFrames |-> Num(0), minSilenceFrames |-> Num(0)])}

\* Partial configurations handed to updateConfig; the hook passes its
\* options through, so a field may be present and undefined.
UpdatePartials == {EmptyPartial, Partial([minSpeechFrames |-> Num(0), minSilenceFrames |-> Num(0)]), Partial([energyThreshold |-> Undefined])}

\* Every sample rate a configuration of the model can hold, and the features
\* of every frame under each of them, computed once.
SampleRates == {Constructor(p).sampleRate : p \in CtorPartials} \cup {p.sampleRate : p \in {q \in UpdatePartials : q.sampleRate # Absent}}
FrameFeatures == {Features(sr, f) : sr \in SampleRates, f \in Frames}

\* ------------------------------------------------------------------------
\* State
\* ------------------------------------------------------------------------
\* The fields of a VADCore instance.
VARIABLES config, previousScore, speechFrameCount, silenceFrameCount, currentState
\* What the caller saw of the last operation: which it was; if processFrame,
\* the VADResult it returned, the length of its frame and whether the frame
\* was all zero; if updateConfig, its partial.  supplied is the value the
\* caller last supplied for each configuration field.
VARIABLES lastOp, result, lastLen, lastAllZero, lastPartial, supplied
\* The run of consecutive frames on one side of the threshold that the last
\* processFrame extended: kind "speech" (smoothed > 0.5), "silence"
\* (smoothed <= 0.5) or "none"; len its length; ok whether it began in the
\* opposite state with its counter at 0 and the frame minimums have not
\* been changed since.
VARIABLES run
\* Whether the last operation was a reset() called on a session that was not
\* in its construction-time state.
VARIABLES resetDirty
\* Whether the instance was Speaking when the last operation, a reset() or
\* an updateConfig(), was called.
VARIABLES wasSpeaking
\* The sustained-signal scenario (a loop feeding consecutive frames to a
\* fresh instance): frameIndex is the number of frames it has fed, strong
\* whether each of them had a rawScore of at least 0.88.  Outside the
\* scenario they stay 0 and TRUE.
VARIABLES frameIndex, strong
\* The useVAD hook that owns the instance: its React state, its refs, the
\* closures of its last committed render and its calls in flight (see the
\* section on the hook).  Without a hook it stays NoHook.
VARIABLES hook
\* The call of a utility function (calculateVADScore, processAudioBuffer)
\* in progress or last made: its arguments, its locals and what it
\* returned (see the section on the utilities).  Without one it stays
\* NoUtil.
VARIABLES util
\* The frame last handed to the feature extractors on its own and what
\* they returned.  Without one it stays NoExtract.
VARIABLES extracted

vars == <<config, previousScore, speechFrameCount, silenceFrameCount, currentState, lastOp, result, lastLen, lastAllZero, lastPartial, supplied, run, resetDirty, wasSpeaking, frameIndex, strong, hook, util, extracted>>

session == <<previousScore, speechFrameCount, silenceFrameCount, currentState>>

NoResult == [score |-> Fin(0), isSpeaking |-> FALSE, energy |-> Fin(0), zcr |-> Fin(0), spectralCentroid |-> Fin(0)]
NoRun == [kind |-> "none", len |-> 0, ok |-> FALSE]

\* Field initialisers of the class.
FreshSession == [previousScore |-> Fin(0), speechFrameCount |-> 0, silenceFrameCount |-> 0, currentState |-> FALSE]

\* The session fields as a record.
Session == [previousScore |-> previousScore, speechFrameCount |-> speechFrameCount, silenceFrameCount |-> silenceFrameCount, currentState |-> currentState]

\* A new instance whose constructor left the configuration cfg, given p.
NewInstance(cfg, p) == /\ config = cfg
                       /\ previousScore = FreshSession.previousScore
                       /\ speechFrameCount = FreshSession.speechFrameCount
                       /\ silenceFrameCount = FreshSession.silenceFrameCount
                       /\ currentState = FreshSession.currentState
                       /\ lastOp = "construct"
                       /\ result = NoResult
                       /\ lastLen = 0
                       /\ lastAllZero = FALSE
                       /\ lastPartial = EmptyPartial
                       /\ supplied = p
                       /\ run = NoRun
                       /\ resetDirty = FALSE
                       /\ wasSpeaking = FALSE
                       /\ frameIndex = 0
                       /\ strong = TRUE

NoHook == [mounted |-> FALSE]
NoUtil == [op |-> "none", pc |-> "idle"]
NoExtract == [op |-> "none"]

\* new VADCore(p), owned by no hook
Construct(p) == NewInstance(Constructor(p), p) /\ hook = NoHook /\ util = NoUtil /\ extracted = NoExtract

Init == \E p \in CtorPartials : Construct(p)

\* The run after a frame whose smoothed score is s.
NextRun(s) == IF Gt(s, Threshold)
              THEN (IF run.kind = "speech" THEN [run EXCEPT !.len = @ + 1]
                    ELSE [kind |-> "speech", len |-> 1, ok |-> ~currentState /\ speechFrameCount = 0])
              ELSE IF Le(s, Threshold)
              THEN (IF run.kind = "silence" THEN [run EXCEPT !.len = @ + 1]
                    ELSE [kind |-> "silence", len |-> 1, ok |-> currentState /\ silenceFrameCount = 0])
              ELSE NoRun

\* vadCore.processFrame(frame): the instance and what the caller sees.
ProcessFrameStep(ft) == /\ ft.sampleRate = config.sampleRate
                        /\ \E r \in {processFrame(config, previousScore, speechFrameCount, silenceFrameCount, currentState, ft)} :
                              /\ previousScore' = r.previousScore
                              /\ speechFrameCount' = r.speechFrameCount
                              /\ silenceFrameCount' = r.silenceFrameCount
                              /\ currentState' = r.currentState
                              /\ result' = r.result
                              /\ run' = NextRun(r.previousScore)
                        /\ lastOp' = "processFrame"
                        /\ lastLen' = Len(ft.frame)
                        /\ lastAllZero' = AllZero(ft.frame)
                        /\ lastPartial' = EmptyPartial
                        /\ resetDirty' = FALSE
                        /\ wasSpeaking' = FALSE
                        /\ UNCHANGED <<config, supplied>>

\* vadCore.processFrame(frame), while the counters stay within MaxCount.
ProcessFrame(ft) == /\ ProcessFrameStep(ft)
                    /\ speechFrameCount' <= MaxCount
                    /\ silenceFrameCount' <= MaxCount
                    /\ UNCHANGED <<frameIndex, strong, hook, util, extracted>>

\* A reset that clears the score and the counters and keeps the state.
resetKeepingState == [previousScore |-> Fin(0), speechFrameCount |-> 0, silenceFrameCount |-> 0, currentState |-> currentState]

\* The session fields after reset().
reset == [previousScore |-> Fin(0), speechFrameCount |-> 0, silenceFrameCount |-> 0, currentState |-> FALSE]

\* vadCore.reset()
Reset == /\ previousScore' = reset.previousScore
         /\ speechFrameCount' = reset.speechFrameCount
         /\ silenceFrameCount' = reset.silenceFrameCount
         /\ currentState' = reset.currentState
         /\ lastOp' = "reset"
         /\ lastPartial' = EmptyPartial
         /\ run' = NoRun
         /\ result' = NoResult
         /\ lastLen' = 0
         /\ lastAllZero' = FALSE
         /\ resetDirty' = (Session # FreshSession)
         /\ wasSpeaking' = currentState
         /\ UNCHANGED <<config, supplied, frameIndex, strong, hook, util, extracted>>

\* An updateConfig that also restarts the session.
updateConfigResetting(cfg, s, p) == [config |-> SpreadConfig(cfg, p), session |-> FreshSession]

\* An updateConfig that also sets the state to Speaking.
updateConfigSpeaking(cfg, s, p) == [config |-> SpreadConfig(cfg, p), session |-> [s EXCEPT !.currentState = TRUE]]

\* The instance fields after updateConfig(p).
updateConfig(cfg, s, p) == [config |-> SpreadConfig(cfg, p), session |-> s]

\* vadCore.updateConfig(p)
UpdateConfig(p) == \E u \in {updateConfig(config, Session, p)} :
                   /\ config' = u.config
                   /\ previousScore' = u.session.previousScore
                   /\ speechFrameCount' = u.session.speechFrameCount
                   /\ silenceFrameCount' = u.session.silenceFrameCount
                   /\ currentState' = u.session.currentState
                   /\ lastOp' = "updateConfig"
                   /\ lastPartial' = p
                   /\ supplied' = SpreadConfig(supplied, p)
                   /\ run' = IF u.config.minSpeechFrames = config.minSpeechFrames /\ u.config.minSilenceFrames = config.minSilenceFrames THEN run ELSE [run EXCEPT !.ok = FALSE]
                   /\ result' = NoResult
                   /\ lastLen' = 0
                   /\ lastAllZero' = FALSE
                   /\ resetDirty' = FALSE
                   /\ wasSpeaking' = currentState
                   /\ UNCHANGED <<frameIndex, strong, hook, util, extracted>>

Next == \/ \E ft \in FrameFeatures : ProcessFrame(ft)
        \/ Reset
        \/ \E p \in UpdatePartials : UpdateConfig(p)

Spec == Init /\ [][Next]_vars

\* ------------------------------------------------------------------------
\* The sustained-signal scenario: a fresh instance with the default
\* configuration is fed consecutive frames whose rawScore is above 0.5.
\* ------------------------------------------------------------------------
\* The rawScore from which a signal counts as strong.
StrongRaw == Dec(88, 100)

\* The number of frames within which a strong signal is to be detected.
DetectWithin == 10

InitScenario == Construct(EmptyPartial)

ScenarioFrame(ft) == /\ frameIndex < MaxScenarioFrames
                     /\ ft.sampleRate = config.sampleRate
                     /\ Gt(FrameRawScore(config, ft), Threshold)
                     /\ ProcessFrameStep(ft)
                     /\ frameIndex' = frameIndex + 1
                     /\ strong' = (strong /\ Ge(FrameRawScore(config, ft), StrongRaw))
                     /\ UNCHANGED <<hook, util, extracted>>

NextScenario == \E ft \in FrameFeatures : ScenarioFrame(ft)

SpecScenario == InitScenario /\ [][NextScenario]_vars

\* ------------------------------------------------------------------------
\* The useVAD hook.  State updates made by a handler are committed by a
\* later render; a render commits the closures that capture the state it
\* saw and runs the effects whose dependencies changed.
\*   isSpeaking, isListening, stream (0 is null, n the n-th MediaStream),
\*   error: the React state;  pending: a render is scheduled;
\*   rendered: the state captured by the closures of the committed render;
\*   awaiting[b]: the startListening calls awaiting getUserMedia whose
\*   processAudioFrame captured isSpeaking = b;
\*   processor: the ScriptProcessor of processorRef, whether it is
\*   connected, the isSpeaking its handler captured and its stream;
\*   orphans: connected processors no ref points to any more;
\*   tracks: the streams whose tracks are not stopped; created: the streams
\*   handed out; callback: the argument of onSpeakingChange if the last
\*   operation called it; op: the last operation.
\* ------------------------------------------------------------------------
\* The options of the hook (the VADConfig part: no smoothing, two frames to
\* enter and to leave Speaking) and the frames the audio source delivers:
\* a loud one and a silent one.
HookOptions == {Partial([smoothingFactor |-> Num(0), minSpeechFrames |-> Num(2), minSilenceFrames |-> Num(2)])}
SilentSignal == <<Num(0), Num(0)>>
HookSignals == {<<Num(1), Num(-1)>>, SilentSignal}

\* The hook after its first render and effects: autoStart calls
\* startListening at once.  "stopped" records that stopListening has
\* returned and startListening has not been called since.
MountedHook(p, a) == [mounted |-> TRUE, options |-> p, autoStart |-> a, vadScore |-> Fin(0), isSpeaking |-> FALSE, isListening |-> FALSE, stream |-> 0, error |-> FALSE, pending |-> FALSE, stopped |-> FALSE,
                      rendered |-> [isSpeaking |-> FALSE, isListening |-> FALSE, stream |-> 0],
                      awaiting |-> [b \in BOOLEAN |-> IF a /\ ~b THEN 1 ELSE 0],
                      processor |-> [connected |-> FALSE, closure |-> FALSE, stream |-> 0],
                      orphans |-> {}, tracks |-> {}, created |-> 0, callback |-> "none", op |-> "mount"]

\* The instance is constructed with the options and the config effect then
\* passes them to updateConfig.
InitHook == \E p \in HookOptions, a \in BOOLEAN :
               /\ NewInstance(SpreadConfig(Constructor(p), p), p)
               /\ hook = MountedHook(p, a)
               /\ util = NoUtil
               /\ extracted = NoExtract

\* The instance after a hook operation other than a frame left it with
\* configuration cfg and session s.
HookCore(cfg, s, op) == /\ config' = cfg
                        /\ previousScore' = s.previousScore
                        /\ speechFrameCount' = s.speechFrameCount
                        /\ silenceFrameCount' = s.silenceFrameCount
                        /\ currentState' = s.currentState
                        /\ lastOp' = op
                        /\ result' = NoResult
                        /\ lastLen' = 0
                        /\ lastAllZero' = FALSE
                        /\ lastPartial' = EmptyPartial
                        /\ run' = NoRun
                        /\ resetDirty' = FALSE
                        /\ wasSpeaking' = FALSE
                        /\ UNCHANGED <<supplied, frameIndex, strong, util, extracted>>

Awaiting(h) == h.awaiting[TRUE] + h.awaiting[FALSE]

\* The connected processors.
LiveProcessors(h) == (IF h.processor.connected THEN {[closure |-> h.processor.closure, stream |-> h.processor.stream]} ELSE {}) \cup h.orphans

\* stopListening as created by a render that saw the stream closureStream:
\* the hook state after it (it also resets the instance).
stopListening(h, closureStream) == [h EXCEPT !.processor.connected = FALSE,
                                             !.tracks = @ \ {closureStream},
                                             !.stream = IF closureStream # 0 THEN 0 ELSE @,
                                             !.isListening = FALSE,
                                             !.vadScore = Fin(0),
                                             !.isSpeaking = FALSE,
                                             !.stopped = TRUE,
                                             !.pending = TRUE]

\* startListening up to its await, as created by a render that saw
\* isSpeaking = closure.
startListening(h, closure) == [h EXCEPT !.awaiting[closure] = @ + 1,
                                        !.error = FALSE,
                                        !.stopped = FALSE,
                                        !.pending = @ \/ h.error]

\* The caller invokes the startListening of the committed render.
StartCall == /\ hook.mounted
             /\ Awaiting(hook) < MaxAwaiting
             /\ hook' = [startListening(hook, hook.rendered.isSpeaking) EXCEPT !.op = "start", !.callback = "none"]
             /\ HookCore(config, Session, "start")

\* getUserMedia resolves for a call whose closure captured b: the rest of
\* startListening sets the stream, builds and connects the pipeline with
\* its handler, sets isListening and resets the instance.  A processor
\* still connected is left connected and loses its ref.
StartResolve(b) == /\ hook.awaiting[b] > 0
                   /\ hook.created < MaxStreams
                   /\ hook' = [hook EXCEPT !.awaiting[b] = @ - 1,
                                           !.created = @ + 1,
                                           !.stream = hook.created + 1,
                                           !.tracks = @ \cup {hook.created + 1},
                                           !.orphans = LiveProcessors(hook),
                                           !.processor = [connected |-> TRUE, closure |-> b, stream |-> hook.created + 1],
                                           !.isListening = TRUE,
                                           !.pending = TRUE,
                                           !.op = "resolve",
                                           !.callback = "none"]
                   /\ HookCore(config, reset, "resolve")

\* getUserMedia rejects: the catch block sets error.
StartReject(b) == /\ hook.awaiting[b] > 0
                  /\ hook' = [hook EXCEPT !.awaiting[b] = @ - 1,
                                          !.error = TRUE,
                                          !.pending = TRUE,
                                          !.op = "reject",
                                          !.callback = "none"]
                  /\ HookCore(config, Session, "reject")

\* A connected processor pr fires onaudioprocess with the frame of ft (a
\* silent one if the tracks of its stream are stopped): processAudioFrame
\* as captured by the handler compares the result with the isSpeaking of
\* its closure.
AudioFrame(pr, ft) == /\ ft.frame \in HookSignals
                      /\ pr.stream \notin hook.tracks => ft.frame = SilentSignal
                      /\ ProcessFrameStep(ft)
                      /\ speechFrameCount' <= MaxCount
                      /\ silenceFrameCount' <= MaxCount
                      /\ hook' = [hook EXCEPT !.vadScore = result'.score,
                                              !.isSpeaking = IF result'.isSpeaking # pr.closure THEN result'.isSpeaking ELSE @,
                                              !.callback = IF result'.isSpeaking = pr.closure THEN "none" ELSE IF result'.isSpeaking THEN "true" ELSE "false",
                                              !.pending = TRUE,
                                              !.op = "frame"]
                      /\ UNCHANGED <<frameIndex, strong, util, extracted>>

\* React renders and commits: the cleanup of the [stopListening] effect
\* calls the previous stopListening if the stream changed, the config
\* effect passes the options to updateConfig, and the autoStart effect
\* calls startListening if autoStart is set and isListening is false.
Render == /\ hook.mounted
          /\ hook.pending
          /\ LET r == [isSpeaking |-> hook.isSpeaking, isListening |-> hook.isListening, stream |-> hook.stream]
                 cleanup == r.stream # hook.rendered.stream
                 starts == hook.autoStart /\ ~r.isListening
                 committed == [hook EXCEPT !.pending = FALSE, !.rendered = r]
                 cleaned == IF cleanup THEN stopListening(committed, hook.rendered.stream) ELSE committed
                 started == IF starts THEN startListening(cleaned, r.isSpeaking) ELSE cleaned
             IN /\ starts => Awaiting(hook) < MaxAwaiting
                /\ hook' = [started EXCEPT !.op = "render", !.callback = "none"]
                /\ HookCore(SpreadConfig(config, hook.options), IF cleanup THEN reset ELSE Session, "render")

\* The caller invokes the stopListening of the committed render.
StopCall == /\ hook.mounted
            /\ hook' = [stopListening(hook, hook.rendered.stream) EXCEPT !.op = "stop", !.callback = "none"]
            /\ HookCore(config, reset, "stop")

\* The component unmounts: the cleanups reset the instance and call the
\* stopListening of the committed render.
Unmount == /\ hook.mounted
           /\ hook' = [stopListening(hook, hook.rendered.stream) EXCEPT !.mounted = FALSE, !.op = "unmount", !.callback = "none"]
           /\ HookCore(config, reset, "unmount")

NextHook == \/ StartCall
            \/ \E b \in BOOLEAN : StartResolve(b)
            \/ \E b \in BOOLEAN : StartReject(b)
            \/ \E pr \in LiveProcessors(hook), ft \in FrameFeatures : AudioFrame(pr, ft)
            \/ Render
            \/ StopCall
            \/ Unmount

SpecHook == InitHook /\ [][NextHook]_vars

\* ------------------------------------------------------------------------
\* The utility functions (utils.ts): calculateVADScore and
\* processAudioBuffer.  JavaScript runs a call to completion, so while the
\* loop of processAudioBuffer is running no other call starts; the loop is
\* modelled one iteration at a time.
\* ------------------------------------------------------------------------

\* frameSize arguments of processAudioBuffer
BufferFrameSizes == {0, 1, 2}
\* config arguments of the utilities (undefined is the empty partial)
UtilConfigs == {EmptyPartial, Partial([smoothingFactor |-> Dec(5, 10), minSpeechFrames |-> Num(1), minSilenceFrames |-> Num(1)])}
Buffers == UNION {[1..n -> Samples] : n \in 0..MaxBufferLen}

\* new VADCore(p), as a value local to a call
NewCore(p) == [config |-> Constructor(p), session |-> FreshSession]

\* core.processFrame(frame): the core afterwards and the result returned
CoreProcessFrame(core, frame) == LET r == processFrame(core.config, core.session.previousScore, core.session.speechFrameCount, core.session.silenceFrameCount, core.session.currentState, Features(core.config.sampleRate, frame))
                                 IN [core |-> [config |-> core.config, session |-> [previousScore |-> r.previousScore, speechFrameCount |-> r.speechFrameCount, silenceFrameCount |-> r.silenceFrameCount, currentState |-> r.currentState]], result |-> r.result]

\* A calculateVADScore scoring on the instance the previous utility call
\* left behind instead of a new one.
calculateVADScoreShared(audioData, p) == CoreProcessFrame([config |-> Constructor(p), session |-> util.core.session], audioData).result.score

\* calculateVADScore(audioData, config)
calculateVADScore(audioData, p) == CoreProcessFrame(NewCore(p), audioData).result.score

\* audioBuffer.slice(i, j) for 0 <= i <= j
Slice(buffer, i, j) == SubSeq(buffer, i + 1, IF j > Len(buffer) THEN Len(buffer) ELSE j)

\* "after" is the utility call made before this one.
IdleUtil == [op |-> "none", pc |-> "idle", after |-> "none", buffer |-> << >>, frameSize |-> 0, options |-> EmptyPartial, i |-> 0, scores |-> << >>, core |-> NewCore(EmptyPartial), audioData |-> << >>, score |-> Fin(0)]

InitUtil == /\ NewInstance(Constructor(EmptyPartial), EmptyPartial)
            /\ hook = NoHook
            /\ util = IdleUtil
            /\ extracted = NoExtract

instance == <<config, previousScore, speechFrameCount, silenceFrameCount, currentState, lastOp, result, lastLen, lastAllZero, lastPartial, supplied, run, resetDirty, wasSpeaking, frameIndex, strong, hook, extracted>>

\* A call calculateVADScore(audioData, p).
CalculateVADScore(audioData, p) == /\ util.pc # "loop"
                                   /\ util' = [IdleUtil EXCEPT !.op = "calculateVADScore", !.pc = "done", !.after = util.op, !.audioData = audioData, !.options = p, !.score = calculateVADScore(audioData, p)]
                                   /\ UNCHANGED instance

\* A call processAudioBuffer(buffer, frameSize, p), up to the loop.
ProcessAudioBufferCall(buffer, frameSize, p) == /\ util.pc # "loop"
                                                /\ util' = [IdleUtil EXCEPT !.op = "processAudioBuffer", !.pc = "loop", !.after = util.op, !.buffer = buffer, !.frameSize = frameSize, !.options = p,
                                                                            !.core = NewCore(SpreadConfig(p, Partial([frameSize |-> Num(frameSize)])))]
                                                /\ UNCHANGED instance

\* One test of the loop condition: an iteration, or the return.  The call
\* is followed while it has pushed fewer than MaxScores scores.
ProcessAudioBufferLoop == /\ util.pc = "loop"
                          /\ Len(util.scores) < MaxScores
                          /\ IF util.i < Len(util.buffer)
                             THEN \E frame \in {Slice(util.buffer, util.i, util.i + util.frameSize)} :
                                    IF Len(frame) = util.frameSize
                                    THEN \E r \in {CoreProcessFrame(util.core, frame)} :
                                           util' = [util EXCEPT !.core = r.core, !.scores = Append(@, r.result.score), !.i = @ + util.frameSize]
                                    ELSE util' = [util EXCEPT !.i = @ + util.frameSize]
                             ELSE util' = [util EXCEPT !.pc = "done"]
                          /\ UNCHANGED instance

NextUtil == \/ \E audioData \in Frames, p \in UtilConfigs : CalculateVADScore(audioData, p)
            \/ \E buffer \in Buffers, frameSize \in BufferFrameSizes, p \in UtilConfigs : ProcessAudioBufferCall(buffer, frameSize, p)
            \/ ProcessAudioBufferLoop

SpecUtil == InitUtil /\ [][NextUtil]_vars

\* ------------------------------------------------------------------------
\* A VADCore given non-positive values for the fields it divides by or
\* sizes frames with, at construction and through updateConfig.
\* ------------------------------------------------------------------------

PositiveFields == {"energyThreshold", "zcrThreshold", "spectralCentroidThreshold", "sampleRate", "frameSize"}
ErrorCtorPartials == {EmptyPartial, Partial([spectralCentroidThreshold |-> Num(-1000)])}
ErrorUpdatePartials == {Partial([energyThreshold |-> Num(0)]), Partial([zcrThreshold |-> Dec(-3, 10), frameSize |-> Num(0)])}

InitConfig == \E p \in ErrorCtorPartials : Construct(p)

NextConfig == \/ \E ft \in FrameFeatures : ProcessFrame(ft)
              \/ \E p \in ErrorUpdatePartials : UpdateConfig(p)

SpecConfig == InitConfig /\ [][NextConfig]_vars

\* ------------------------------------------------------------------------
\* A VADCore used within the documented constraints: positive thresholds,
\* sample rate and frame size, smoothingFactor in [0, 1], and frames of at
\* least two samples.
\* ------------------------------------------------------------------------

ValidConfig(cfg) == /\ \A f \in PositiveFields : IsFin(cfg[f]) /\ cfg[f].v > 0
                    /\ IsFin(cfg.smoothingFactor) /\ cfg.smoothingFactor.v >= 0 /\ cfg.smoothingFactor.v <= Scale
ValidCtorPartials == {EmptyPartial}
ValidUpdatePartials == {Partial([smoothingFactor |-> Num(0), zcrThreshold |-> Dec(1, 10)]), Partial([smoothingFactor |-> Num(1), energyThreshold |-> Num(2)])}
ValidFrameFeatures == {ft \in FrameFeatures : Len(ft.frame) >= 2}

InitValid == \E p \in ValidCtorPartials : ValidConfig(Constructor(p)) /\ Construct(p)

NextValid == \/ \E ft \in ValidFrameFeatures : ProcessFrame(ft)
             \/ Reset
             \/ \E p \in ValidUpdatePartials : ValidConfig(SpreadConfig(config, p)) /\ UpdateConfig(p)

SpecValid == InitValid /\ [][NextValid]_vars

\* ------------------------------------------------------------------------
\* The feature extractors applied to a frame on their own, as processFrame
\* applies them before it scores.
\* ------------------------------------------------------------------------

ExtractFrames == UNION {[1..n -> Samples] : n \in 0..MaxExtractLen}

InitExtract == Construct(EmptyPartial)

\* this.calculateEnergy(frame), this.calculateZCR(frame),
\* this.calculateSpectralCentroid(frame)
Extract(frame) == /\ extracted' = [op |-> "extract", frame |-> frame, energy |-> calculateEnergy(frame), zcr |-> calculateZCR(frame), spectralCentroid |-> calculateSpectralCentroid(config.sampleRate, frame)]
                  /\ UNCHANGED <<config, session, lastOp, result, lastLen, lastAllZero, lastPartial, supplied, run, resetDirty, wasSpeaking, frameIndex, strong, hook, util>>

NextExtract == \E frame \in ExtractFrames : Extract(frame)

SpecExtract == InitExtract /\ [][NextExtract]_vars

\* ------------------------------------------------------------------------
\* Properties
\* ------------------------------------------------------------------------
\* Whether a is a finite number in [0,1].
InUnit(a) == IsFin(a) /\ a.v >= 0 /\ a.v <= Scale

\* Whether a is the number 0.
IsZero(a) == a = Fin(0)

\* C1: the score every processFrame returns is a number with
\* 0 <= score <= 1, whatever the frame, the session and the configuration.
C1_ScoreInUnit == lastOp = "processFrame" => InUnit(result.score)

\* C2: entering Speaking is debounced.  In a run of consecutive frames with
\* smoothed score above 0.5 that began in Silence with speechFrameCount = 0,
\* isSpeaking is true exactly from the minSpeechFrames-th frame on; and a
\* frame that ends such a run before isSpeaking became true leaves it false.
C2_EnterDebounced == [][lastOp' = "processFrame" =>
                          /\ (run'.kind = "speech" /\ run'.ok => result'.isSpeaking = Ge(Num(run'.len), config'.minSpeechFrames))
                          /\ (run.kind = "speech" /\ run.ok /\ ~currentState /\ run'.kind # "speech" => ~result'.isSpeaking)]_vars

\* C2 happens: a run of minSpeechFrames >= 2 frames above the threshold that
\* began in Silence has just set the state to Speaking.
C2_Entered == /\ lastOp = "processFrame"
              /\ run.kind = "speech" /\ run.ok /\ run.len >= 2
              /\ config.minSpeechFrames = Num(run.len)
              /\ result.isSpeaking

\* C3: leaving Speaking is debounced and sticky.  In a run of consecutive
\* frames with smoothed score <= 0.5 that began in Speaking with
\* silenceFrameCount = 0, isSpeaking is false exactly from the
\* minSilenceFrames-th frame on; and a frame processed in Speaking that is
\* not part of a run of frames at or below the threshold returns true.
C3_LeaveDebounced == [][lastOp' = "processFrame" =>
                          /\ (run'.kind = "silence" /\ run'.ok => result'.isSpeaking = ~Ge(Num(run'.len), config'.minSilenceFrames))
                          /\ (currentState /\ run'.kind # "silence" => result'.isSpeaking)]_vars

\* C4: reset() leaves previousScore = 0, both counters 0 and the state
\* Silence, the session of a freshly constructed instance, with the
\* configuration unchanged; a second reset() changes nothing.
C4_ResetRestoresFresh == [][lastOp' = "reset" => Session' = FreshSession /\ config' = config]_vars

\* C4 happens: reset() was called on a session that had left its
\* construction-time state.
C4_ResetOfUsedSession == lastOp = "reset" /\ resetDirty

\* C5: updateConfig leaves previousScore, speechFrameCount,
\* silenceFrameCount and currentState as they were, for every partial.
C5_UpdateKeepsSession == [][lastOp' = "updateConfig" => session' = session]_vars

\* C5 happens: updateConfig changed a field while the session was Speaking
\* with a running counter and a non-zero previous score.
C5_UpdatedMidStream == /\ lastOp = "updateConfig"
                       /\ lastPartial # EmptyPartial
                       /\ currentState
                       /\ speechFrameCount > 0
                       /\ previousScore # Fin(0)

\* Whether a field of a partial configuration carries a value.
HasValue(a) == a.k \notin {"absent", "undef"}

\* C6: updateConfig(partial) sets each field the partial gives a value to
\* that value and leaves every other field, one the partial does not have
\* or has with no value, at its previous value.
C6_UpdateSetsSupplied == [][lastOp' = "updateConfig" =>
                              \A f \in Fields : config'[f] = IF HasValue(lastPartial'[f]) THEN lastPartial'[f] ELSE config[f]]_vars

\* C7: after construction each configuration field holds the supplied
\* value if one was supplied (0 included, for smoothingFactor,
\* minSpeechFrames and minSilenceFrames) and the default otherwise.
C7_ConstructorHoldsSupplied == lastOp = "construct" =>
                                  \A f \in Fields : config[f] = IF HasValue(supplied[f]) THEN supplied[f] ELSE Defaults[f]

\* C8: when the minSpeechFrames last given (to the constructor or to
\* updateConfig) is 0, a frame with smoothed score above 0.5 processed in
\* Silence returns isSpeaking = true; when the minSilenceFrames last given
\* is 0, a frame with smoothed score <= 0.5 processed in Speaking returns
\* isSpeaking = false.
C8_ZeroMinimumFiresAtOnce == [][lastOp' = "processFrame" =>
                                  /\ (supplied.minSpeechFrames = Num(0) /\ ~currentState /\ Gt(previousScore', Threshold) => result'.isSpeaking)
                                  /\ (supplied.minSilenceFrames = Num(0) /\ currentState /\ Le(previousScore', Threshold) => ~result'.isSpeaking)]_vars

\* C9: an all-zero frame of length >= 1 processed by a session in its
\* construction-time state returns energy = 0, zcr = 0,
\* spectralCentroid = 0, score = 0 and isSpeaking = false.
C9_SilentFrameIsZero == [][Session = FreshSession /\ lastOp' = "processFrame" /\ lastAllZero' /\ lastLen' >= 1 =>
                             /\ IsZero(result'.energy)
                             /\ IsZero(result'.zcr)
                             /\ IsZero(result'.spectralCentroid)
                             /\ IsZero(result'.score)
                             /\ ~result'.isSpeaking]_vars

\* C10: processFrame of an empty frame returns energy = 0, zcr = 0 and
\* spectralCentroid = 0 and leaves previousScore a number in [0,1].
C10_EmptyFrameIsZero == lastOp = "processFrame" /\ lastLen = 0 =>
                           /\ IsZero(result.energy)
                           /\ IsZero(result.zcr)
                           /\ IsZero(result.spectralCentroid)
                           /\ InUnit(previousScore)

\* C11: in every state both counters are non-negative and not both
\* non-zero; after every processFrame exactly one of them is non-zero, it
\* is one greater than before the call and the other is 0.
C11_CountersExclusive == /\ [](speechFrameCount >= 0 /\ silenceFrameCount >= 0 /\ (speechFrameCount = 0 \/ silenceFrameCount = 0))
                         /\ [][lastOp' = "processFrame" =>
                                 \/ (speechFrameCount' = speechFrameCount + 1 /\ silenceFrameCount' = 0)
                                 \/ (silenceFrameCount' = silenceFrameCount + 1 /\ speechFrameCount' = 0)]_vars

\* C11 happens: processFrame has grown the speech counter to 2 or more
\* while the silence counter is 0.
C11_SpeechCounterGrowing == /\ lastOp = "processFrame"
                            /\ speechFrameCount >= 2
                            /\ silenceFrameCount = 0

\* C12 as stated: currentState changes only in processFrame; neither
\* reset() nor updateConfig() changes its value in any state.
C12_OnlyProcessFrameChangesState == [][currentState' # currentState => lastOp' = "processFrame"]_vars

\* C12 amended: currentState changes only in processFrame and in reset(),
\* which sets it to Silence; updateConfig() never changes it.
C12_StateChangesInFrameOrReset == [][currentState' # currentState => lastOp' = "processFrame" \/ (lastOp' = "reset" /\ ~currentState')]_vars

\* C12 happens: reset() was called in Speaking and left Silence.
C12_ResetFromSpeaking == lastOp = "reset" /\ wasSpeaking /\ ~currentState

\* The frame just processed is the n-th or a later one of a run of frames
\* with smoothed score above 0.5.
SpeechRunOf(n) == run.kind = "speech" /\ Ge(Num(run.len), n)

\* C13 as stated: in the scenario the smoothed score does not exceed 0.5
\* on the first frame, and isSpeaking is true exactly from the frame that
\* comes minSpeechFrames frames after the one on which the smoothed score
\* first exceeded 0.5.
C13_SpeakingFramesAfterCrossing == lastOp = "processFrame" =>
                                      /\ (frameIndex = 1 => ~Gt(previousScore, Threshold))
                                      /\ result.isSpeaking = SpeechRunOf(Add(config.minSpeechFrames, Num(1)))

\* C13 amended: in the scenario the smoothed score does not exceed 0.5 on
\* the first frame, and isSpeaking is true exactly from the
\* minSpeechFrames-th frame with smoothed score above 0.5, the frame of the
\* first crossing counted as the first.
C13_SpeakingOnCountedFrame == lastOp = "processFrame" =>
                                 /\ (frameIndex = 1 => ~Gt(previousScore, Threshold))
                                 /\ result.isSpeaking = SpeechRunOf(config.minSpeechFrames)

\* C13 happens: the third frame above the threshold of a 10-frame scenario
\* has just set isSpeaking.
C13_ScenarioEntered == /\ frameIndex <= DetectWithin
                       /\ run.kind = "speech" /\ run.len = 3
                       /\ config.minSpeechFrames = Num(3)
                       /\ result.isSpeaking

\* C14: fed strong frames only (rawScore >= 0.88) from a fresh state with
\* the default configuration, isSpeaking is true by the 10th frame and,
\* once true, stays true on every later frame of the run.
C14_SustainedSpeechDetected == /\ [](strong /\ frameIndex >= DetectWithin => result.isSpeaking)
                               /\ [][strong' /\ result.isSpeaking /\ lastOp' = "processFrame" => result'.isSpeaking]_vars

\* C14 happens: a strong run longer than 10 frames is reported as speech.
C14_StrongRunSpeaking == strong /\ frameIndex > DetectWithin /\ result.isSpeaking

\* C15: the hook calls onSpeakingChange on exactly the frames whose
\* isSpeaking differs from that of the previous frame, with the new value.
C15_CallbackOnChangeOnly == [][hook'.op = "frame" =>
                                 /\ (hook'.callback # "none") = (result'.isSpeaking # currentState)
                                 /\ (hook'.callback = "true" => result'.isSpeaking)
                                 /\ (hook'.callback = "false" => ~result'.isSpeaking)]_vars

\* C16: a successful startListening leaves isListening true and the
\* processor connected, and every later render leaves them so.
C16_PipelineSurvivesRender == [][/\ (hook'.op = "resolve" => hook'.isListening /\ hook'.processor.connected)
                                 /\ (hook.isListening /\ hook.processor.connected /\ hook'.op = "render" => hook'.isListening /\ hook'.processor.connected)]_vars

\* The VADCore of a processAudioBuffer call after the first k full frames
\* of its buffer, fed in order to one instance.
RECURSIVE CoreAfterFrames(_, _, _, _)
CoreAfterFrames(p, buffer, frameSize, k) == IF k = 0
                                            THEN NewCore(SpreadConfig(p, Partial([frameSize |-> Num(frameSize)])))
                                            ELSE CoreProcessFrame(CoreAfterFrames(p, buffer, frameSize, k - 1), Slice(buffer, (k - 1) * frameSize, k * frameSize)).core

\* C17: processAudioBuffer returns one score per consecutive frame of
\* frameSize samples, the k-th being what one VADCore returns for the k-th
\* frame after the frames before it, and every sample of the buffer belongs
\* to a scored frame.
C17_EverySampleScored == util.op = "processAudioBuffer" /\ util.pc = "done"
                           => /\ Len(util.scores) * util.frameSize >= Len(util.buffer)
                              /\ \A k \in 1..Len(util.scores) :
                                   util.scores[k] = CoreProcessFrame(CoreAfterFrames(util.options, util.buffer, util.frameSize, k - 1), Slice(util.buffer, (k - 1) * util.frameSize, k * util.frameSize)).result.score

\* C18: calculateVADScore returns the score of the first frame of a new
\* VADCore of that configuration, clamp((1 - smoothingFactor) * rawScore),
\* whatever utility call was made before it.
C18_ScoreOfFreshCore == util.op = "calculateVADScore"
                          => \E cfg \in {Constructor(util.options)} :
                               util.score = ClampScore(Mul(Sub(Num(1), cfg.smoothingFactor), FrameRawScore(cfg, Features(cfg.sampleRate, util.audioData))))
C18_ScoredAfterBuffer == util.op = "calculateVADScore" /\ util.after = "processAudioBuffer" /\ IsFin(util.score) /\ util.score.v > 0

\* C19: a non-positive energyThreshold, zcrThreshold,
\* spectralCentroidThreshold, sampleRate or frameSize is refused at
\* construction and at updateConfig: no instance ever holds one, and an
\* update supplying one leaves the configuration as it was.
C19_ConfigErrorRejected == /\ [](\A f \in PositiveFields : Gt(config[f], Num(0)))
                           /\ [][lastOp' = "updateConfig" /\ (\E f \in PositiveFields : IsFin(lastPartial'[f]) /\ lastPartial'[f].v <= 0) => config' = config]_vars

Clamp01(a) == IF IsNaN(a) THEN NaN ELSE IF Gt(a, Num(1)) THEN Num(1) ELSE IF Gt(Num(0), a) THEN Num(0) ELSE a

\* C21: each processFrame stores smoothingFactor * previousScore +
\* (1 - smoothingFactor) * rawScore into previousScore, returns that value
\* clamped to [0, 1] as score, and returns as isSpeaking the state as it
\* stands after the frame's hysteresis step.
C21_SmoothedStoredAndReported == [][lastOp' = "processFrame" =>
                                      \E energyScore \in {EnergyScore(config, result'.energy)}, zcrScore \in {ZcrScore(config, result'.zcr)}, spectralScore \in {SpectralScore(config, result'.spectralCentroid)} :
                                        \E rawScore \in {RawScore(energyScore, zcrScore, spectralScore)} :
                                          \E kept \in {Mul(config.smoothingFactor, previousScore)}, fresh \in {Mul(Sub(Num(1), config.smoothingFactor), rawScore)} :
                                            /\ previousScore' = Add(kept, fresh)
                                            /\ result'.score = Clamp01(previousScore')
                                            /\ result'.isSpeaking = currentState']_vars
C21_EnteredOnCountedFrame == /\ lastOp = "processFrame"
                             /\ speechFrameCount >= 1 /\ Num(speechFrameCount) = config.minSpeechFrames
                             /\ result.isSpeaking
                             /\ IsFin(previousScore) /\ previousScore.v > 0 /\ result.score = previousScore
                             /\ config.smoothingFactor # Num(0)

\* C22: with a configuration within the constraints and frames of two or
\* more samples, the three feature scores and the raw score of every frame
\* are in [0, 1], previousScore is in [0, 1] in every reachable state, and
\* the returned score is the smoothed value unaltered by the clamp.
C22_ScoresStayInUnit == /\ InUnit(previousScore)
                        /\ lastOp = "processFrame" =>
                             \E energyScore \in {EnergyScore(config, result.energy)}, zcrScore \in {ZcrScore(config, result.zcr)}, spectralScore \in {SpectralScore(config, result.spectralCentroid)} :
                               /\ InUnit(energyScore) /\ InUnit(zcrScore) /\ InUnit(spectralScore)
                               /\ InUnit(RawScore(energyScore, zcrScore, spectralScore))
                               /\ result.score = previousScore
C22_FullScoreReached == lastOp = "processFrame" /\ previousScore = Num(1) /\ result.score = Num(1) /\ Gt(Div(result.zcr, config.zcrThreshold), Num(1))

\* C23: the zero-crossing rate of a frame of N >= 2 samples is the number
\* of indices i in 1..N-1 at which one of x_i, x_(i-1) is negative and the
\* other is not (0 counting as non-negative), divided by N - 1, and lies in
\* [0, 1].
C23_ZcrCountsSignFlips == extracted.op = "extract" /\ Len(extracted.frame) >= 2
                            => /\ extracted.zcr = Div(Num(Cardinality({i \in 2..Len(extracted.frame) : (extracted.frame[i].v < 0) # (extracted.frame[i - 1].v < 0)})), Num(Len(extracted.frame) - 1))
                               /\ InUnit(extracted.zcr)
C23_ZeroPairsSeen == extracted.op = "extract" /\ extracted.frame = <<Num(-1), Num(0), Num(0), Num(1)>> /\ extracted.zcr = Div(Num(1), Num(3))

\* C24: once stopListening has returned and until startListening is called
\* again, isListening is false, vadScore is 0, isSpeaking is false, the
\* instance is in its reset state and no processor delivers frames.
C24_StoppedStaysStopped == hook.mounted /\ hook.stopped =>
                             /\ ~hook.isListening /\ hook.vadScore = Fin(0) /\ ~hook.isSpeaking
                             /\ Session = FreshSession
                             /\ LiveProcessors(hook) = {}

\* C25: processAudioBuffer terminates for every buffer and every frameSize:
\* each iteration of its loop moves the index i forward, so that the loop
\* ends after at most as many iterations as the buffer has samples.
C25_LoopAdvances == [][util.pc = "loop" /\ util'.pc = "loop" => util'.i > util.i]_vars

\* C26: at most one pipeline is live and feeding the instance at any time,
\* and once the hook is stopped or unmounted no pipeline is connected and
\* no track of a stream it opened is still running.
C26_SinglePipelineTornDown == /\ Cardinality(LiveProcessors(hook)) <= 1
                              /\ hook.stopped \/ ~hook.mounted => LiveProcessors(hook) = {} /\ hook.tracks = {}

\* C27: a startListening that fails sets error and leaves isListening
\* false, and error then keeps its message until the caller invokes
\* startListening again: no render, effect or other operation of the hook
\* clears it or repeats the start.
C27_ErrorSettles == [][/\ (hook'.op = "reject" => hook'.error /\ (~hook.isListening => ~hook'.isListening))
                       /\ (hook.error /\ hook'.op # "start" => hook'.error /\ Awaiting(hook') <= Awaiting(hook))]_vars

====
